---- MODULE Spec2Model ----
(***************************************************************************)
(* The book catalogue API of advanced-api-project: the Author and Book     *)
(* tables (api/models.py), the serializers that validate and render them   *)
(* (advanced_api_project/api/serializers.py), the routed generic views     *)
(* (api/views.py, api/urls.py) and the query surface of the book list      *)
(* (filter, search, ordering).  One action is one HTTP request, handled    *)
(* from permission check to response.                                      *)
(***************************************************************************)
EXTENDS Integers, Sequences, FiniteSets, TLC

VARIABLES
    authors,        \* Author table: id -> name
    books,          \* Book table: id -> [title, publication_year, author]
    nextAuthorId,   \* next value of the Author primary key sequence
    nextBookId,     \* next value of the Book primary key sequence
    currentYear,    \* the year the server's clock shows
    last            \* the most recent request together with its response

vars == <<authors, books, nextAuthorId, nextBookId, currentYear, last>>

(***************************************************************************)
(* Bounds of the model.                                                    *)
(***************************************************************************)
MaxAuthorId == 2
MaxBookId == 2
FirstYear == 2025
MaxYear == 2026

AuthorIds == 1..MaxAuthorId
BookIds == 1..MaxBookId
\* publication years a request may carry: past, current and future ones
Years == FirstYear..(MaxYear + 1)

(***************************************************************************)
(* Status codes.                                                           *)
(***************************************************************************)
HTTP_200_OK == 200
HTTP_201_CREATED == 201
HTTP_204_NO_CONTENT == 204
HTTP_400_BAD_REQUEST == 400
HTTP_403_FORBIDDEN == 403
HTTP_404_NOT_FOUND == 404
HTTP_405_METHOD_NOT_ALLOWED == 405

(***************************************************************************)
(* Text.  A string is a sequence of one-character strings.                 *)
(***************************************************************************)
Chars == {"a", "b", "A", "B", " ", ","}

\* code point order of the characters in use
Code(c) ==
    CASE c = " " -> 32
      [] c = "," -> 44
      [] c = "A" -> 65
      [] c = "B" -> 66
      [] c = "a" -> 97
      [] c = "b" -> 98

LowerChar(c) ==
    CASE c = "A" -> "a"
      [] c = "B" -> "b"
      [] OTHER -> c

lower(s) == [i \in 1..Len(s) |-> LowerChar(s[i])]

\* needle occurs in hay as a contiguous run
Contains(hay, needle) ==
    \E i \in 0..(Len(hay) - Len(needle)) :
        SubSeq(hay, i + 1, i + Len(needle)) = needle

\* the ORM's icontains lookup
icontains(value, term) == Contains(lower(value), lower(term))

\* s sorts strictly before t, code point by code point
StrLess(s, t) ==
    \E k \in 1..(Len(t)) :
        /\ k <= Len(s) + 1
        /\ \A i \in 1..(k - 1) : s[i] = t[i]
        /\ (k = Len(s) + 1 \/ Code(s[k]) < Code(t[k]))

StrLeq(s, t) == s = t \/ StrLess(s, t)

(***************************************************************************)
(* Sample text of the CRUD specification.                                  *)
(***************************************************************************)
TitleA == <<"a">>
TitleB == <<"B", "a">>
NameA == <<"A", "b">>
NameB == <<"b">>
Titles == {TitleA, TitleB}
Names == {NameA, NameB}

(***************************************************************************)
(* Rows and their wire form.                                               *)
(***************************************************************************)
Ids(table) == DOMAIN table

EmptyTable == [i \in {} |-> 0]
NoErrors == [f \in {} |-> ""]

BookFields == {"title", "publication_year", "author"}

\* BookSerializer.Meta.fields: id, title, publication_year, author (as its id)
BookRepr(id) ==
    [id |-> id, title |-> books[id].title,
     publication_year |-> books[id].publication_year,
     author |-> books[id].author]

BookReprIn(table, id) ==
    [id |-> id, title |-> table[id].title,
     publication_year |-> table[id].publication_year,
     author |-> table[id].author]

BooksOf(table, a) == {b \in Ids(table) : table[b].author = a}

\* AuthorSerializer: id, name and the nested, read-only books of the author
AuthorReprIn(atable, btable, id) ==
    [id |-> id, name |-> atable[id],
     books |-> {BookReprIn(btable, b) : b \in BooksOf(btable, id)}]

\* every order in which the rows of an unordered queryset may come back
Perms(S) ==
    {p \in [1..Cardinality(S) -> S] :
        \A i, j \in 1..Cardinality(S) : i # j => p[i] # p[j]}

(***************************************************************************)
(* Request payloads.  fields is the set of keys the body carries; a key    *)
(* that is absent has its value normalised.                                *)
(***************************************************************************)
BookData(fs, t, y, a) ==
    [fields |-> fs,
     title |-> IF "title" \in fs THEN t ELSE <<>>,
     publication_year |-> IF "publication_year" \in fs THEN y ELSE 0,
     author |-> IF "author" \in fs THEN a ELSE 0]

NoData == [fields |-> {}]

AuthorData(fs, n, nested) ==
    [fields |-> fs, name |-> IF "name" \in fs THEN n ELSE <<>>,
     books |-> nested]

\* the author ids a body may name: the first and the last there can be
PayloadAuthors == {1, MaxAuthorId}

\* complete bodies of book writes: every year with either author
FullBookPayloads ==
    {BookData(BookFields, TitleA, y, a) : y \in Years, a \in PayloadAuthors}
    \cup {BookData(BookFields, TitleB, y, 1) : y \in Years}

\* bodies that lack a field or carry a blank title
PartialBookPayloads ==
    {BookData({}, <<>>, 0, 0), BookData({"title"}, TitleA, 0, 0),
     BookData({"title", "author"}, TitleA, 0, MaxAuthorId),
     BookData(BookFields, <<>>, FirstYear, 1)}
    \cup {BookData({"publication_year"}, <<>>, y, 0) : y \in Years}

\* bodies of author writes; books is the length of a nested list of books
\* the client sends along
AuthorPayloads ==
    {AuthorData({"name"}, NameA, 0), AuthorData({"name"}, NameB, 0),
     AuthorData({"name"}, NameB, 1), AuthorData({}, <<>>, 0),
     AuthorData({}, <<>>, 1)}

(***************************************************************************)
(* Permissions (rest_framework.permissions).                               *)
(***************************************************************************)
Methods == {"GET", "POST", "PUT", "PATCH", "DELETE"}
SAFE_METHODS == {"GET", "HEAD", "OPTIONS"}

\* IsAuthenticated letting everyone in, as AllowAny does
IsAuthenticated_AllowAny(authed, method) == TRUE

IsAuthenticated(authed, method) == authed

\* IsAuthenticatedOrReadOnly letting every method of everyone in
IsAuthenticatedOrReadOnly_AllowAny(authed, method) == TRUE

IsAuthenticatedOrReadOnly(authed, method) ==
    method \in SAFE_METHODS \/ authed

(***************************************************************************)
(* Serializers.  An error map takes each offending field to its message;   *)
(* the empty map means the data is valid.                                  *)
(***************************************************************************)
RequiredMsg == "This field is required."
BlankMsg == "This field may not be blank."
DoesNotExistMsg == "Invalid pk - object does not exist."
FutureMsg == "Publication year cannot be in the future."
GuardMsg == "Cannot be in the future."

\* validate_publication_year with the current year refused as well
validate_publication_year_geq(value, current_year) ==
    IF value >= current_year THEN FutureMsg ELSE ""

\* BookSerializer.validate_publication_year: the message raised, "" when the
\* value is returned
validate_publication_year(value, current_year) ==
    IF value > current_year THEN FutureMsg ELSE ""

\* the author field taken as a bare integer, not looked up
author_field_unchecked(value, atable) == ""

\* the author field of the ModelSerializer: a primary key that must resolve
author_field(value, atable) ==
    IF value \in Ids(atable) THEN "" ELSE DoesNotExistMsg

\* the title field: a CharField that refuses the empty string
title_field(value) == IF value = <<>> THEN BlankMsg ELSE ""

BookFieldError(f, data, partial, atable, today) ==
    IF f \notin data.fields
    THEN IF partial THEN "" ELSE RequiredMsg
    ELSE CASE f = "title" -> title_field(data.title)
           [] f = "publication_year" ->
                validate_publication_year(data.publication_year, today)
           [] f = "author" -> author_field(data.author, atable)

\* is_valid stopping at the first field that fails
BookSerializer_errors_first_only(data, partial, atable, today) ==
    LET bad == {f \in BookFields :
                    BookFieldError(f, data, partial, atable, today) # ""}
        first == IF "title" \in bad THEN {"title"}
                 ELSE IF "publication_year" \in bad THEN {"publication_year"}
                 ELSE bad
    IN  [f \in first |-> BookFieldError(f, data, partial, atable, today)]

\* is_valid reporting a bad author reference as an error of no field
BookSerializer_errors_non_field(data, partial, atable, today) ==
    LET bad == {f \in BookFields :
                    BookFieldError(f, data, partial, atable, today) # ""}
        keys == {IF f = "author" THEN "non_field_errors" ELSE f : f \in bad}
    IN  [k \in keys |->
            BookFieldError(IF k = "non_field_errors" THEN "author" ELSE k,
                           data, partial, atable, today)]

\* BookSerializer.is_valid: every field is run, the errors are collected
BookSerializer_errors(data, partial, atable, today) ==
    LET bad == {f \in BookFields :
                    BookFieldError(f, data, partial, atable, today) # ""}
    IN  [f \in bad |-> BookFieldError(f, data, partial, atable, today)]

\* AuthorSerializer.is_valid: name is the only writable field, books is
\* read-only and dropped from the input
AuthorSerializer_errors(data, partial) ==
    IF "name" \notin data.fields
    THEN IF partial THEN NoErrors ELSE [f \in {"name"} |-> RequiredMsg]
    ELSE IF data.name = <<>> THEN [f \in {"name"} |-> BlankMsg] ELSE NoErrors

\* BookCreateView.perform_create up to the save: the error it raises
perform_create(data, current_year) ==
    IF data.publication_year > current_year
    THEN [f \in {"publication_year"} |-> GuardMsg]
    ELSE NoErrors

\* perform_update that saves without looking at the year
perform_update_unguarded(data, current_year) == NoErrors

\* BookUpdateView.perform_update up to the save: validated_data.get() is None
\* for a key a partial update leaves out, and None and 0 are both falsy
perform_update(data, current_year) ==
    IF /\ "publication_year" \in data.fields
       /\ data.publication_year # 0
       /\ data.publication_year > current_year
    THEN [f \in {"publication_year"} |-> GuardMsg]
    ELSE NoErrors

\* serializer.save() that leaves the foreign key of the row as it was
BookSaved_keep_author(old, data) ==
    [title |-> IF "title" \in data.fields THEN data.title ELSE old.title,
     publication_year |-> IF "publication_year" \in data.fields
                          THEN data.publication_year ELSE old.publication_year,
     author |-> old.author]

\* serializer.save() on an existing row: the validated keys replace the old
BookSaved(old, data) ==
    [title |-> IF "title" \in data.fields THEN data.title ELSE old.title,
     publication_year |-> IF "publication_year" \in data.fields
                          THEN data.publication_year ELSE old.publication_year,
     author |-> IF "author" \in data.fields THEN data.author ELSE old.author]

\* Book.author with on_delete=DO_NOTHING: the books stay
on_delete_DO_NOTHING(btable, a) == btable

\* Book.author: on_delete=CASCADE, the books left once author a is deleted
on_delete_CASCADE(btable, a) ==
    [b \in Ids(btable) \ BooksOf(btable, a) |-> btable[b]]

(***************************************************************************)
(* The query surface of BookListView: filter_backends in their order.      *)
(* A query is the set of parameters the URL carries and their values.      *)
(***************************************************************************)
QueryParams == {"author", "publication_year", "title", "search", "ordering"}

\* ordering=<field> or ordering=-<field>
OrderBy(neg, field) == [neg |-> neg, field |-> field]

Query(fs, a, y, t, q, o) ==
    [fields |-> fs,
     author |-> IF "author" \in fs THEN a ELSE 0,
     publication_year |-> IF "publication_year" \in fs THEN y ELSE 0,
     title |-> IF "title" \in fs THEN t ELSE <<>>,
     search |-> IF "search" \in fs THEN q ELSE <<>>,
     ordering |-> IF "ordering" \in fs THEN o ELSE OrderBy(FALSE, "")]

\* filterset_fields: the author filter is a choice among the stored authors
\* and refuses any other value; the other two take any value
filterset_errors(query, atable) ==
    IF "author" \in query.fields /\ query.author \notin Ids(atable)
    THEN [f \in {"author"} |-> "Select a valid choice."]
    ELSE NoErrors

\* DjangoFilterBackend with title left out of filterset_fields
DjangoFilterBackend_no_title(query, btable) ==
    {b \in Ids(btable) :
        /\ "author" \in query.fields => btable[b].author = query.author
        /\ "publication_year" \in query.fields =>
              btable[b].publication_year = query.publication_year}

\* DjangoFilterBackend: exact match on every filter the query carries
DjangoFilterBackend(query, btable) ==
    {b \in Ids(btable) :
        /\ "author" \in query.fields => btable[b].author = query.author
        /\ "publication_year" \in query.fields =>
              btable[b].publication_year = query.publication_year
        /\ "title" \in query.fields => btable[b].title = query.title}

\* str.split(): the maximal runs of characters other than blanks
RECURSIVE split(_)
split(s) ==
    IF s = <<>> THEN <<>>
    ELSE IF Head(s) = " " THEN split(Tail(s))
    ELSE LET blanks == {i \in 1..Len(s) : s[i] = " "}
             stop == IF blanks = {} THEN Len(s) + 1
                     ELSE CHOOSE i \in blanks : \A j \in blanks : i <= j
         IN  <<SubSeq(s, 1, stop - 1)>> \o split(SubSeq(s, stop + 1, Len(s)))

\* SearchFilter.get_search_terms: commas count as blanks
get_search_terms(search) ==
    split([i \in 1..Len(search) |-> IF search[i] = "," THEN " " ELSE search[i]])

\* search_fields = title alone
term_matches_title_only(term, b, atable, btable) ==
    icontains(btable[b].title, term)

\* search_fields = title, author__name: one of them contains the term
term_matches(term, b, atable, btable) ==
    \/ icontains(btable[b].title, term)
    \/ icontains(atable[btable[b].author], term)

\* SearchFilter: every term of the search must match
SearchFilter(query, ids, atable, btable) ==
    LET terms == get_search_terms(query.search)
    IN  {b \in ids : \A k \in 1..Len(terms) :
                        term_matches(terms[k], b, atable, btable)}

ordering_fields == {"title", "publication_year", "author", "author__name"}

\* OrderingFilter.get_ordering: the requested field if it is an ordering
\* field, else the view's default, ordering = ['title']
get_ordering(query) ==
    IF "ordering" \in query.fields /\ query.ordering.field \in ordering_fields
    THEN query.ordering
    ELSE OrderBy(FALSE, "title")

\* row x does not sort after row y on the field
KeyLeq(field, x, y, atable, btable) ==
    CASE field = "title" -> StrLeq(btable[x].title, btable[y].title)
      [] field = "publication_year" ->
            btable[x].publication_year <= btable[y].publication_year
      [] field = "author" -> btable[x].author <= btable[y].author
      [] field = "author__name" ->
            StrLeq(atable[btable[x].author], atable[btable[y].author])

\* ORDER BY that drops the leading '-' and always sorts ascending
OrderingFilter_ascending(ord, ids, atable, btable) ==
    {p \in Perms(ids) :
        \A i, j \in 1..Len(p) :
            i < j => KeyLeq(ord.field, p[i], p[j], atable, btable)}

\* ORDER BY on one column: any order of the rows that respects the column;
\* rows that agree on it come in whatever order the database yields them
OrderingFilter(ord, ids, atable, btable) ==
    {p \in Perms(ids) :
        \A i, j \in 1..Len(p) :
            i < j => IF ord.neg
                     THEN KeyLeq(ord.field, p[j], p[i], atable, btable)
                     ELSE KeyLeq(ord.field, p[i], p[j], atable, btable)}

\* GenericAPIView.filter_queryset over Book.objects.all(): every sequence of
\* book ids the list may return
filter_queryset(query, atable, btable) ==
    OrderingFilter(get_ordering(query),
                   SearchFilter(query, DjangoFilterBackend(query, btable),
                                atable, btable),
                   atable, btable)

(***************************************************************************)
(* Views: what each one answers.  APIView.dispatch runs initial() (the     *)
(* permission check) first, then looks the handler up (405), and the       *)
(* handler fetches the object (404) before it validates the body (400).    *)
(***************************************************************************)
Answer(status, errors) == [status |-> status, errors |-> errors]

\* 0: the request reaches the handler
initial(permitted, method, allowed) ==
    IF ~permitted THEN HTTP_403_FORBIDDEN
    ELSE IF method \notin allowed THEN HTTP_405_METHOD_NOT_ALLOWED
    ELSE 0

BookListView_permission(authed, method) == IsAuthenticatedOrReadOnly(authed, method)
BookDetailView_permission(authed, method) == IsAuthenticatedOrReadOnly(authed, method)
BookCreateView_permission(authed, method) == IsAuthenticated(authed, method)
BookUpdateView_permission(authed, method) == IsAuthenticated(authed, method)
BookDeleteView_permission(authed, method) == IsAuthenticated(authed, method)
AuthorListCreateView_permission(authed, method) == IsAuthenticatedOrReadOnly(authed, method)
AuthorDetailView_permission(authed, method) == IsAuthenticatedOrReadOnly(authed, method)

\* POST /books/create/
BookCreateView_response(authed, method, data, atable, today, now) ==
    LET pre == initial(BookCreateView_permission(authed, method), method, {"POST"})
        errs == BookSerializer_errors(data, FALSE, atable, today)
    IN  IF pre # 0 THEN Answer(pre, NoErrors)
        ELSE IF errs # NoErrors THEN Answer(HTTP_400_BAD_REQUEST, errs)
        ELSE IF perform_create(data, now) # NoErrors
             THEN Answer(HTTP_400_BAD_REQUEST, perform_create(data, now))
        ELSE Answer(HTTP_201_CREATED, NoErrors)

\* the update view saving the body as it came, neither validated nor guarded
BookUpdateView_response_unvalidated(authed, method, pk, data, atable, btable, today, now) ==
    LET pre == initial(authed, method, {"PUT", "PATCH"})
    IN  IF pre # 0 THEN Answer(pre, NoErrors)
        ELSE IF pk \notin Ids(btable) THEN Answer(HTTP_404_NOT_FOUND, NoErrors)
        ELSE Answer(HTTP_200_OK, NoErrors)

\* PUT, PATCH /books/<pk>/update/
BookUpdateView_response(authed, method, pk, data, atable, btable, today, now) ==
    LET pre == initial(BookUpdateView_permission(authed, method), method,
                       {"PUT", "PATCH"})
        errs == BookSerializer_errors(data, method = "PATCH", atable, today)
    IN  IF pre # 0 THEN Answer(pre, NoErrors)
        ELSE IF pk \notin Ids(btable) THEN Answer(HTTP_404_NOT_FOUND, NoErrors)
        ELSE IF errs # NoErrors THEN Answer(HTTP_400_BAD_REQUEST, errs)
        ELSE IF perform_update(data, now) # NoErrors
             THEN Answer(HTTP_400_BAD_REQUEST, perform_update(data, now))
        ELSE Answer(HTTP_200_OK, NoErrors)

\* the delete view fetching the object before it checks the permission
BookDeleteView_response_lookup_first(authed, method, pk, btable) ==
    IF pk \notin Ids(btable) THEN Answer(HTTP_404_NOT_FOUND, NoErrors)
    ELSE IF ~authed THEN Answer(HTTP_403_FORBIDDEN, NoErrors)
    ELSE IF method # "DELETE" THEN Answer(HTTP_405_METHOD_NOT_ALLOWED, NoErrors)
    ELSE Answer(HTTP_204_NO_CONTENT, NoErrors)

\* DELETE /books/<pk>/delete/
BookDeleteView_response(authed, method, pk, btable) ==
    LET pre == initial(BookDeleteView_permission(authed, method), method, {"DELETE"})
    IN  IF pre # 0 THEN Answer(pre, NoErrors)
        ELSE IF pk \notin Ids(btable) THEN Answer(HTTP_404_NOT_FOUND, NoErrors)
        ELSE Answer(HTTP_204_NO_CONTENT, NoErrors)

\* GET /books/<pk>/
BookDetailView_response(authed, method, pk, btable) ==
    LET pre == initial(BookDetailView_permission(authed, method), method, {"GET"})
    IN  IF pre # 0 THEN Answer(pre, NoErrors)
        ELSE IF pk \notin Ids(btable) THEN Answer(HTTP_404_NOT_FOUND, NoErrors)
        ELSE Answer(HTTP_200_OK, NoErrors)

\* GET /books/
BookListView_response(authed, method, query, atable) ==
    LET pre == initial(BookListView_permission(authed, method), method, {"GET"})
    IN  IF pre # 0 THEN Answer(pre, NoErrors)
        ELSE IF filterset_errors(query, atable) # NoErrors
             THEN Answer(HTTP_400_BAD_REQUEST, filterset_errors(query, atable))
        ELSE Answer(HTTP_200_OK, NoErrors)

\* GET, POST /authors/
AuthorListCreateView_response(authed, method, data) ==
    LET pre == initial(AuthorListCreateView_permission(authed, method), method,
                       {"GET", "POST"})
        errs == AuthorSerializer_errors(data, FALSE)
    IN  IF pre # 0 THEN Answer(pre, NoErrors)
        ELSE IF method = "GET" THEN Answer(HTTP_200_OK, NoErrors)
        ELSE IF errs # NoErrors THEN Answer(HTTP_400_BAD_REQUEST, errs)
        ELSE Answer(HTTP_201_CREATED, NoErrors)

\* GET, PUT, PATCH, DELETE /authors/<pk>/
AuthorDetailView_response(authed, method, pk, data, atable) ==
    LET pre == initial(AuthorDetailView_permission(authed, method), method,
                       {"GET", "PUT", "PATCH", "DELETE"})
        errs == AuthorSerializer_errors(data, method = "PATCH")
    IN  IF pre # 0 THEN Answer(pre, NoErrors)
        ELSE IF pk \notin Ids(atable) THEN Answer(HTTP_404_NOT_FOUND, NoErrors)
        ELSE IF method = "GET" THEN Answer(HTTP_200_OK, NoErrors)
        ELSE IF method = "DELETE" THEN Answer(HTTP_204_NO_CONTENT, NoErrors)
        ELSE IF errs # NoErrors THEN Answer(HTTP_400_BAD_REQUEST, errs)
        ELSE Answer(HTTP_200_OK, NoErrors)

(***************************************************************************)
(* The requests.  Each action is one request handled to its response.      *)
(***************************************************************************)
Respond(view, method, authed, pk, data, ans, body) ==
    [view |-> view, method |-> method, authed |-> authed, pk |-> pk,
     data |-> data, status |-> ans.status, errors |-> ans.errors,
     body |-> body]

NoRequest == Respond("", "", FALSE, 0, NoData, Answer(0, NoErrors), <<>>)

\* no request is being handled: requests are handled one at a time
Idle == last = NoRequest

\* the clock read by the view after the serializer read it: the year may turn
LaterYears == {y \in {currentYear, currentYear + 1} : y <= MaxYear}

\* a create that takes the number of rows plus one as the new primary key
BookCreateView_count_id(authed, method, data, now) ==
    LET ans == BookCreateView_response(authed, method, data, authors,
                                       currentYear, now)
        created == ans.status = HTTP_201_CREATED
        id == Cardinality(Ids(books)) + 1
        row == [title |-> data.title, publication_year |-> data.publication_year,
                author |-> data.author]
    IN  /\ Idle
        /\ created => nextBookId <= MaxBookId + 1
        /\ books' = IF created
                    THEN [b \in Ids(books) \cup {id} |->
                            IF b = id THEN row ELSE books[b]]
                    ELSE books
        /\ nextBookId' = nextBookId
        /\ currentYear' = now
        /\ last' = Respond("BookCreateView", method, authed, 0, data, ans,
                           IF created THEN <<BookReprIn(books', id)>> ELSE <<>>)
        /\ UNCHANGED <<authors, nextAuthorId>>

\* BookCreateView (CreateModelMixin.create)
BookCreateView(authed, method, data, now) ==
    LET ans == BookCreateView_response(authed, method, data, authors,
                                       currentYear, now)
        created == ans.status = HTTP_201_CREATED
        row == [title |-> data.title, publication_year |-> data.publication_year,
                author |-> data.author]
    IN  /\ Idle
        /\ created => nextBookId <= MaxBookId
        /\ books' = IF created THEN books @@ (nextBookId :> row) ELSE books
        /\ nextBookId' = IF created THEN nextBookId + 1 ELSE nextBookId
        /\ currentYear' = now
        /\ last' = Respond("BookCreateView", method, authed, 0, data, ans,
                           IF created THEN <<BookReprIn(books', nextBookId)>>
                           ELSE <<>>)
        /\ UNCHANGED <<authors, nextAuthorId>>

\* an update that saves the body before it is validated
BookUpdateView_save_first(authed, method, pk, data, now) ==
    LET ans == BookUpdateView_response(authed, method, pk, data, authors, books,
                                       currentYear, now)
        saved == ans.status \in {HTTP_200_OK, HTTP_400_BAD_REQUEST}
        updated == ans.status = HTTP_200_OK
    IN  /\ Idle
        /\ books' = IF saved
                    THEN [books EXCEPT ![pk] = BookSaved(books[pk], data)]
                    ELSE books
        /\ currentYear' = now
        /\ last' = Respond("BookUpdateView", method, authed, pk, data, ans,
                           IF updated THEN <<BookReprIn(books', pk)>> ELSE <<>>)
        /\ UNCHANGED <<authors, nextAuthorId, nextBookId>>

\* BookUpdateView (UpdateModelMixin.update and partial_update)
BookUpdateView(authed, method, pk, data, now) ==
    LET ans == BookUpdateView_response(authed, method, pk, data, authors, books,
                                       currentYear, now)
        updated == ans.status = HTTP_200_OK
    IN  /\ Idle
        /\ books' = IF updated
                    THEN [books EXCEPT ![pk] = BookSaved(books[pk], data)]
                    ELSE books
        /\ currentYear' = now
        /\ last' = Respond("BookUpdateView", method, authed, pk, data, ans,
                           IF updated THEN <<BookReprIn(books', pk)>> ELSE <<>>)
        /\ UNCHANGED <<authors, nextAuthorId, nextBookId>>

\* a delete that answers 204 and keeps the row (a soft delete)
BookDeleteView_soft_delete(authed, method, pk) ==
    LET ans == BookDeleteView_response(authed, method, pk, books)
    IN  /\ Idle
        /\ last' = Respond("BookDeleteView", method, authed, pk, NoData, ans, <<>>)
        /\ UNCHANGED <<authors, books, nextAuthorId, nextBookId, currentYear>>

\* BookDeleteView (DestroyModelMixin.destroy)
BookDeleteView(authed, method, pk) ==
    LET ans == BookDeleteView_response(authed, method, pk, books)
        deleted == ans.status = HTTP_204_NO_CONTENT
    IN  /\ Idle
        /\ books' = IF deleted THEN [b \in Ids(books) \ {pk} |-> books[b]]
                    ELSE books
        /\ last' = Respond("BookDeleteView", method, authed, pk, NoData, ans, <<>>)
        /\ UNCHANGED <<authors, nextAuthorId, nextBookId, currentYear>>

\* BookDetailView (RetrieveModelMixin.retrieve)
BookDetailView(authed, method, pk) ==
    LET ans == BookDetailView_response(authed, method, pk, books)
    IN  /\ Idle
        /\ last' = Respond("BookDetailView", method, authed, pk, NoData, ans,
                           IF ans.status = HTTP_200_OK
                           THEN <<BookReprIn(books, pk)>> ELSE <<>>)
        /\ UNCHANGED <<authors, books, nextAuthorId, nextBookId, currentYear>>

\* BookListView (ListModelMixin.list)
BookListView(authed, method, query) ==
    LET ans == BookListView_response(authed, method, query, authors)
        rows == IF ans.status = HTTP_200_OK
                THEN filter_queryset(query, authors, books) ELSE {<<>>}
    IN  /\ Idle
        /\ \E p \in rows :
              last' = Respond("BookListView", method, authed, 0, query, ans,
                              [i \in DOMAIN p |-> BookReprIn(books, p[i])])
        /\ UNCHANGED <<authors, books, nextAuthorId, nextBookId, currentYear>>

\* AuthorListCreateView: the list in whatever order the table yields, or a
\* new author
AuthorListCreateView(authed, method, data) ==
    LET ans == AuthorListCreateView_response(authed, method, data)
        created == ans.status = HTTP_201_CREATED
        listed == ans.status = HTTP_200_OK
    IN  /\ Idle
        /\ created => nextAuthorId <= MaxAuthorId
        /\ authors' = IF created THEN authors @@ (nextAuthorId :> data.name)
                      ELSE authors
        /\ nextAuthorId' = IF created THEN nextAuthorId + 1 ELSE nextAuthorId
        /\ \E order \in Perms(IF listed THEN Ids(authors) ELSE {}) :
              last' = Respond("AuthorListCreateView", method, authed, 0, data, ans,
                        IF created
                        THEN <<AuthorReprIn(authors', books, nextAuthorId)>>
                        ELSE [i \in DOMAIN order |->
                                AuthorReprIn(authors, books, order[i])])
        /\ UNCHANGED <<books, nextBookId, currentYear>>

\* an author update whose nested list of books is written through: the
\* author's books are dropped when the list sent is shorter than they are
AuthorDetailView_nested_writable(authed, method, pk, data) ==
    LET ans == AuthorDetailView_response(authed, method, pk, data, authors)
        deleted == ans.status = HTTP_204_NO_CONTENT
        shown == ans.status = HTTP_200_OK
        updated == shown /\ method # "GET"
    IN  /\ Idle
        /\ authors' = IF deleted THEN [a \in Ids(authors) \ {pk} |-> authors[a]]
                      ELSE IF updated /\ "name" \in data.fields
                           THEN [authors EXCEPT ![pk] = data.name]
                      ELSE authors
        /\ books' = IF deleted THEN on_delete_CASCADE(books, pk)
                    ELSE IF updated
                            /\ data.books < Cardinality(BooksOf(books, pk))
                         THEN on_delete_CASCADE(books, pk)
                    ELSE books
        /\ last' = Respond("AuthorDetailView", method, authed, pk, data, ans,
                           IF shown THEN <<AuthorReprIn(authors', books', pk)>>
                           ELSE <<>>)
        /\ UNCHANGED <<nextAuthorId, nextBookId, currentYear>>

\* AuthorDetailView: retrieve, update, partial update, destroy with cascade
AuthorDetailView(authed, method, pk, data) ==
    LET ans == AuthorDetailView_response(authed, method, pk, data, authors)
        deleted == ans.status = HTTP_204_NO_CONTENT
        shown == ans.status = HTTP_200_OK
        updated == shown /\ method # "GET"
    IN  /\ Idle
        /\ authors' = IF deleted THEN [a \in Ids(authors) \ {pk} |-> authors[a]]
                      ELSE IF updated /\ "name" \in data.fields
                           THEN [authors EXCEPT ![pk] = data.name]
                      ELSE authors
        /\ books' = IF deleted THEN on_delete_CASCADE(books, pk) ELSE books
        /\ last' = Respond("AuthorDetailView", method, authed, pk, data, ans,
                           IF shown THEN <<AuthorReprIn(authors', books, pk)>>
                           ELSE <<>>)
        /\ UNCHANGED <<nextAuthorId, nextBookId, currentYear>>

\* the response leaves the server, which keeps nothing of the request
ReturnResponse ==
    /\ ~Idle
    /\ last' = NoRequest
    /\ UNCHANGED <<authors, books, nextAuthorId, nextBookId, currentYear>>

\* the year turns between two requests
Tick ==
    /\ Idle
    /\ currentYear < MaxYear
    /\ currentYear' = currentYear + 1
    /\ UNCHANGED <<authors, books, nextAuthorId, nextBookId, last>>

(***************************************************************************)
(* The CRUD specification: an empty database, then any requests.           *)
(***************************************************************************)
Init ==
    /\ authors = EmptyTable
    /\ books = EmptyTable
    /\ nextAuthorId = 1
    /\ nextBookId = 1
    /\ currentYear = FirstYear
    /\ last = NoRequest

EmptyBook == BookData({}, <<>>, 0, 0)
EmptyAuthor == AuthorData({}, <<>>, 0)

\* what an anonymous caller sends: a valid body, a future year, nothing
AnonBookPayloads ==
    {BookData(BookFields, TitleA, FirstYear, 1),
     BookData(BookFields, TitleB, MaxYear + 1, 1), EmptyBook}

\* bodies of a create that leave out one or more of the required fields
OmittingBookPayloads ==
    {BookData(fs, TitleA, FirstYear, 1) : fs \in (SUBSET BookFields) \ {BookFields}}
    \cup {BookData({"title", "publication_year"}, <<>>, MaxYear + 1, 0)}

\* a body goes with the methods whose handler may read one: complete bodies
\* with POST and PUT, partial ones with PATCH, and some of the other kind
BookBodies(authed, method, handled) ==
    IF method \notin handled THEN {EmptyBook}
    ELSE IF ~authed THEN AnonBookPayloads
    ELSE IF method = "PATCH"
         THEN PartialBookPayloads
              \cup {BookData(BookFields, TitleB, FirstYear, 1),
                    BookData(BookFields, TitleA, MaxYear + 1, 1)}
    ELSE IF method = "POST"
         THEN FullBookPayloads \cup OmittingBookPayloads
              \cup {BookData(BookFields, <<>>, FirstYear, 1)}
    ELSE FullBookPayloads
         \cup {EmptyBook, BookData({"title"}, TitleA, 0, 0),
               BookData(BookFields, <<>>, FirstYear, 1)}
AuthorBodies(authed, method, handled) ==
    IF method \notin handled THEN {EmptyAuthor}
    ELSE IF authed THEN AuthorPayloads
    ELSE {AuthorData({"name"}, NameB, 1)}

\* the list queries of the CRUD specification
ListQueries ==
    {Query({}, 0, 0, <<>>, <<>>, OrderBy(FALSE, "")),
     Query({"author"}, MaxAuthorId, 0, <<>>, <<>>, OrderBy(FALSE, "")),
     Query({"search"}, 0, 0, <<>>, TitleA, OrderBy(FALSE, "")),
     Query({"ordering"}, 0, 0, <<>>, <<>>, OrderBy(TRUE, "publication_year"))}

Next ==
    \/ Idle /\ \E authed \in BOOLEAN, method \in Methods :
         \E query \in (IF method = "GET" THEN ListQueries
                       ELSE {Query({}, 0, 0, <<>>, <<>>, OrderBy(FALSE, ""))}) :
            BookListView(authed, method, query)
    \/ Idle /\ \E authed \in BOOLEAN, method \in Methods :
         \E data \in BookBodies(authed, method, {"POST"}), now \in LaterYears :
            BookCreateView(authed, method, data, now)
    \/ Idle /\ \E authed \in BOOLEAN, method \in Methods, pk \in BookIds :
         \E data \in BookBodies(authed, method, {"PUT", "PATCH"}),
            now \in LaterYears :
            BookUpdateView(authed, method, pk, data, now)
    \/ Idle /\ \E authed \in BOOLEAN, method \in Methods, pk \in BookIds :
         BookDeleteView(authed, method, pk)
    \/ Idle /\ \E authed \in BOOLEAN, method \in Methods, pk \in BookIds :
         BookDetailView(authed, method, pk)
    \/ Idle /\ \E authed \in BOOLEAN, method \in Methods :
         \E data \in AuthorBodies(authed, method, {"POST"}) :
            AuthorListCreateView(authed, method, data)
    \/ Idle /\ \E authed \in BOOLEAN, method \in Methods, pk \in AuthorIds :
         \E data \in AuthorBodies(authed, method, {"PUT", "PATCH"}) :
            AuthorDetailView(authed, method, pk, data)
    \/ ReturnResponse
    \/ Tick

Spec == Init /\ [][Next]_vars

(***************************************************************************)
(* The query specification: a populated catalogue, then list requests.     *)
(* The text is chosen so that titles and names share words, differ in      *)
(* case, tie with one another, and sort unlike the ids of their rows.      *)
(***************************************************************************)
QTitles == {<<"a", " ", "b">>, <<"A", "b">>, <<"b">>}
QAuthors == (1 :> <<"b">>) @@ (2 :> <<"B", "a">>)
QBookRows ==
    [title : QTitles, publication_year : {FirstYear, MaxYear},
     author : Ids(QAuthors)]

QSearches ==
    {<<>>, <<"a">>, <<"B">>, <<"a", "b">>, <<"a", " ", "b">>, <<"b", " ", "a">>,
     <<" ">>, <<"a", ",", "b">>, <<"b", "a">>}

QOrderings ==
    {OrderBy(neg, f) : neg \in BOOLEAN, f \in ordering_fields \cup {"id"}}

\* filters: each of author, publication_year and title absent or present,
\* the author one also with an id that is no author's
QFilters ==
    {Query(fs, a, FirstYear, <<"A", "b">>, <<>>, OrderBy(FALSE, "")) :
        fs \in SUBSET {"author", "publication_year", "title"},
        a \in {1, MaxAuthorId + 1}}

WithSearch(query, q) ==
    [query EXCEPT !.fields = @ \cup {"search"}, !.search = q]
WithOrdering(query, o) ==
    [query EXCEPT !.fields = @ \cup {"ordering"}, !.ordering = o]

NoQuery == Query({}, 0, 0, <<>>, <<>>, OrderBy(FALSE, ""))

QueryInputs ==
    QFilters
    \cup {WithSearch(f, q) : f \in QFilters, q \in QSearches}
    \cup {WithOrdering(f, o) :
            f \in {NoQuery, Query({"author"}, 1, 0, <<>>, <<>>, OrderBy(FALSE, "")),
                   Query({"publication_year"}, 0, FirstYear, <<>>, <<>>,
                         OrderBy(FALSE, "")),
                   Query({"title"}, 0, 0, <<"A", "b">>, <<>>, OrderBy(FALSE, ""))},
            o \in QOrderings}
    \cup {WithOrdering(WithSearch(Query({"author"}, 1, 0, <<>>, <<>>,
                                        OrderBy(FALSE, "")), q), o) :
            q \in QSearches, o \in QOrderings}

InitQuery ==
    /\ authors = QAuthors
    /\ \E n \in 0..MaxBookId : books \in [1..n -> QBookRows]
    /\ nextAuthorId = Cardinality(Ids(QAuthors)) + 1
    /\ nextBookId = Cardinality(Ids(books)) + 1
    /\ currentYear = MaxYear
    /\ last = NoRequest

NextQuery ==
    \/ Idle /\ \E authed \in BOOLEAN, query \in QueryInputs :
         BookListView(authed, "GET", query)
    \/ ReturnResponse

SpecQuery == InitQuery /\ [][NextQuery]_vars

(***************************************************************************)
(* Properties of the CRUD specification.                                   *)
(***************************************************************************)
\* a step that handles a request: last' is the request and its response
Handled == Idle /\ ~Idle'

ErrorKeys(r) == DOMAIN r.errors

\* an authenticated POST /books/create/ or PUT /books/<pk>/update/ of an
\* existing book whose body carries every field
FullBookWrite(r, btable) ==
    /\ r.authed
    /\ \/ r.view = "BookCreateView" /\ r.method = "POST"
       \/ r.view = "BookUpdateView" /\ r.method = "PUT" /\ r.pk \in Ids(btable)
    /\ r.data.fields = BookFields

\* C1: an authenticated create, and an authenticated PUT update of an
\* existing book, with a publication_year after the current year is answered
\* 400 with a publication_year key in the error body; with the current year
\* (and a title and an existing author) it succeeds and the year is stored
C1_FutureYear ==
    [][(Handled /\ FullBookWrite(last', books)) =>
          /\ last'.data.publication_year > currentYear =>
                /\ last'.status = HTTP_400_BAD_REQUEST
                /\ "publication_year" \in ErrorKeys(last')
                /\ books' = books
          /\ (/\ last'.data.publication_year = currentYear
              /\ last'.data.title # <<>>
              /\ last'.data.author \in Ids(authors)) =>
                /\ last'.status = IF last'.view = "BookCreateView"
                                  THEN HTTP_201_CREATED ELSE HTTP_200_OK
                /\ \E b \in Ids(books') :
                      /\ books'[b].publication_year = currentYear
                      /\ last'.body = <<BookReprIn(books', b)>>]_vars

C1_Witness ==
    /\ ~Idle
    /\ last.view = "BookUpdateView" /\ last.method = "PUT" /\ last.authed
    /\ last.pk \in Ids(books)
    /\ last.data.fields = BookFields
    /\ last.data.publication_year > currentYear
    /\ last.status = HTTP_400_BAD_REQUEST
    /\ "publication_year" \in ErrorKeys(last)

\* C2: every stored book has a publication_year that is not after the
\* current year, whatever requests were made and however the year turned
C2_NoFutureBook ==
    \A b \in Ids(books) : books[b].publication_year <= currentYear

C2_Witness ==
    /\ ~Idle
    /\ last.view = "BookUpdateView" /\ last.method = "PATCH"
    /\ last.status = HTTP_200_OK
    /\ "publication_year" \in last.data.fields
    /\ \E b \in Ids(books) : books[b].publication_year < currentYear
    /\ \E b \in Ids(books) : books[b].publication_year = currentYear

\* C3: an anonymous caller gets 200 from GET /books/ and from GET /books/<pk>/
\* of an existing book, and 403 from POST /books/create/, PUT
\* /books/<pk>/update/ and DELETE /books/<pk>/delete/ whatever the body and
\* whether or not the book exists
C3_Anonymous ==
    (~Idle /\ ~last.authed) =>
        /\ (last.view = "BookListView" /\ last.method = "GET"
            /\ "author" \notin last.data.fields) => last.status = HTTP_200_OK
        /\ (last.view = "BookDetailView" /\ last.method = "GET"
            /\ last.pk \in Ids(books)) => last.status = HTTP_200_OK
        /\ (last.view = "BookCreateView" /\ last.method = "POST") =>
                last.status = HTTP_403_FORBIDDEN
        /\ (last.view = "BookUpdateView" /\ last.method = "PUT") =>
                last.status = HTTP_403_FORBIDDEN
        /\ (last.view = "BookDeleteView" /\ last.method = "DELETE") =>
                last.status = HTTP_403_FORBIDDEN

C3_Witness ==
    /\ ~Idle /\ ~last.authed
    /\ last.view = "BookDeleteView" /\ last.method = "DELETE"
    /\ last.pk \in Ids(books)
    /\ last.status = HTTP_403_FORBIDDEN

\* C4: for a book id that does not exist, an anonymous PUT update or DELETE
\* is answered 403, not 404; an authenticated update or delete is answered
\* 404, as is GET /books/<pk>/ from any caller
C4_ForbiddenBeforeNotFound ==
    [][(Handled /\ last'.pk \notin Ids(books)) =>
          /\ (\/ last'.view = "BookUpdateView" /\ last'.method \in {"PUT", "PATCH"}
              \/ last'.view = "BookDeleteView" /\ last'.method = "DELETE") =>
                last'.status = IF last'.authed THEN HTTP_404_NOT_FOUND
                               ELSE HTTP_403_FORBIDDEN
          /\ (last'.view = "BookDetailView" /\ last'.method = "GET") =>
                last'.status = HTTP_404_NOT_FOUND]_vars

C4_Witness ==
    /\ ~Idle /\ ~last.authed
    /\ last.view = "BookDeleteView" /\ last.method = "DELETE"
    /\ last.pk \notin Ids(books)
    /\ last.pk < nextBookId
    /\ last.status = HTTP_403_FORBIDDEN

\* C5: a successful delete of an author removes, in the one step, that
\* author and exactly the books of that author: no other author or book goes
\* or changes, and in no step does an author go while a book of it stays
C5_CascadeDelete ==
    [][/\ (Handled /\ last'.view = "AuthorDetailView"
           /\ last'.status = HTTP_204_NO_CONTENT) =>
              /\ last'.pk \in Ids(authors)
              /\ Ids(authors') = Ids(authors) \ {last'.pk}
       /\ \A a \in Ids(authors) \ Ids(authors') :
              /\ Ids(books') = {b \in Ids(books) : books[b].author # a}
              /\ \A b \in Ids(books') : books'[b] = books[b]
              /\ \A o \in Ids(authors') : authors'[o] = authors[o]]_vars

C5_Witness ==
    /\ ~Idle
    /\ last.view = "AuthorDetailView" /\ last.method = "DELETE"
    /\ last.status = HTTP_204_NO_CONTENT
    /\ last.pk \notin Ids(authors)
    /\ nextBookId = MaxBookId + 1
    /\ Cardinality(Ids(books)) = 1
    /\ Ids(authors) # {}

\* C6: the author of every stored book is a stored author
C6_AuthorExists ==
    \A b \in Ids(books) : books[b].author \in Ids(authors)

C6_Witness ==
    /\ ~Idle
    /\ last.view = "BookUpdateView" /\ last.authed
    /\ last.status = HTTP_400_BAD_REQUEST
    /\ "author" \in ErrorKeys(last)
    /\ last.data.author > 0
    /\ last.data.author < nextAuthorId
    /\ books # EmptyTable

(***************************************************************************)
(* Properties of the query specification.                                  *)
(***************************************************************************)
\* the response to a GET /books/ that was answered with a list
Listed == ~Idle /\ last.view = "BookListView" /\ last.status = HTTP_200_OK

BodyIds(r) == {r.body[i].id : i \in DOMAIN r.body}

\* the title of book b, or the name of its author, contains q whatever the case
FieldHas(b, q) ==
    \/ Contains(lower(books[b].title), lower(q))
    \/ Contains(lower(authors[books[b].author]), lower(q))

Separators == {" ", ","}

\* the terms of a search: its maximal runs free of blanks and commas
TermsOf(q) ==
    {SubSeq(q, i, j) : <<i, j>> \in
        {w \in (1..Len(q)) \X (1..Len(q)) :
            /\ w[1] <= w[2]
            /\ \A k \in w[1]..w[2] : q[k] \notin Separators
            /\ (w[1] = 1 \/ q[w[1] - 1] \in Separators)
            /\ (w[2] = Len(q) \/ q[w[2] + 1] \in Separators)}}

SearchOnly == last.data.fields \subseteq {"search", "ordering"}

\* C7 as stated: GET /books/?search=s returns exactly the books whose title
\* or whose author's name contains s, whatever the case
C7_WholeStringSearch ==
    (Listed /\ SearchOnly /\ "search" \in last.data.fields) =>
        BodyIds(last) = {b \in Ids(books) : FieldHas(b, last.data.search)}

\* C7 amended: GET /books/?search=s returns exactly the books that, for every
\* term of s (s cut at blanks and commas), contain the term in the title or
\* in the author's name, whatever the case; when s is one term this is the
\* books whose title or author's name contains s, and when s has no term
\* it is every book
C7_SearchByTerms ==
    (Listed /\ SearchOnly /\ "search" \in last.data.fields) =>
        /\ BodyIds(last) = {b \in Ids(books) :
                               \A t \in TermsOf(last.data.search) : FieldHas(b, t)}
        /\ TermsOf(last.data.search) = {last.data.search} =>
              BodyIds(last) = {b \in Ids(books) : FieldHas(b, last.data.search)}
        /\ TermsOf(last.data.search) = {} => BodyIds(last) = Ids(books)

\* a search of two terms returned a book that holds each term but not the
\* search as a whole
C7_Witness ==
    /\ Listed /\ SearchOnly
    /\ Cardinality(TermsOf(last.data.search)) = 2
    /\ \E b \in BodyIds(last) : ~FieldHas(b, last.data.search)
    /\ \E b \in Ids(books) : b \notin BodyIds(last)

\* C8: the books a list returns are exactly those that equal every filter
\* the query carries (author, publication_year, title) and match the search;
\* the ordering decides their sequence only: each is there once, as stored
C8_FilterAndSearch ==
    (~Idle /\ last.view = "BookListView" /\ last.method = "GET") =>
        LET q == last.data
            byFilter == {b \in Ids(books) :
                /\ "author" \in q.fields => books[b].author = q.author
                /\ "publication_year" \in q.fields =>
                      books[b].publication_year = q.publication_year
                /\ "title" \in q.fields => books[b].title = q.title}
            bySearch == {b \in Ids(books) :
                            \A t \in TermsOf(q.search) : FieldHas(b, t)}
        IN  /\ BodyIds(last) = byFilter \cap bySearch
            /\ Len(last.body) = Cardinality(BodyIds(last))
            /\ \A i \in DOMAIN last.body :
                  last.body[i] = BookRepr(last.body[i].id)

\* an author filter, a search and an ordering together: a book is returned
\* and another one, of the same author, is turned away by the search
C8_Witness ==
    /\ Listed
    /\ {"author", "search", "ordering"} \subseteq last.data.fields
    /\ BodyIds(last) # {}
    /\ \E b \in Ids(books) \ BodyIds(last) :
          /\ books[b].author = last.data.author
          /\ \E t \in TermsOf(last.data.search) : ~FieldHas(b, t)

\* x does not sort after y on the field, x and y in their wire form
ReprLeq(field, x, y) ==
    CASE field = "title" -> StrLeq(x.title, y.title)
      [] field = "publication_year" -> x.publication_year <= y.publication_year
      [] field = "author" -> x.author <= y.author
      [] field = "author__name" -> StrLeq(authors[x.author], authors[y.author])

ReprTie(field, x, y) == ReprLeq(field, x, y) /\ ReprLeq(field, y, x)

\* the key a list is sorted on: the one asked for, title when none is
SortField(q) == IF "ordering" \in q.fields THEN q.ordering.field ELSE "title"
SortDesc(q) == "ordering" \in q.fields /\ q.ordering.neg

\* C9: with ordering=<key>, key one of title, publication_year, author and
\* author__name, the list comes sorted ascending on the key, with a leading
\* '-' descending; with no ordering parameter it comes ascending on title
C9_Sorted ==
    (Listed /\ SortField(last.data) \in
                  {"title", "publication_year", "author", "author__name"}) =>
        \A i, j \in DOMAIN last.body :
            i < j => IF SortDesc(last.data)
                     THEN ReprLeq(SortField(last.data), last.body[j], last.body[i])
                     ELSE ReprLeq(SortField(last.data), last.body[i], last.body[j])

\* a descending list of books that differ on the key
C9_Witness ==
    /\ Listed
    /\ SortDesc(last.data) /\ SortField(last.data) = "author__name"
    /\ Len(last.body) >= 2
    /\ ~ReprTie("author__name", last.body[1], last.body[Len(last.body)])
    /\ last.body[1].author < last.body[Len(last.body)].author

\* C10: books that agree on the sort key come in their original order (that
\* of their ids), ascending and descending alike, so a request on a store
\* has one possible answer
C10_StableTies ==
    (Listed /\ SortField(last.data) \in
                  {"title", "publication_year", "author", "author__name"}) =>
        \A i, j \in DOMAIN last.body :
            (i < j /\ ReprTie(SortField(last.data), last.body[i], last.body[j]))
                => last.body[i].id < last.body[j].id

(***************************************************************************)
(* Properties of single requests: what a request leaves behind.            *)
(***************************************************************************)
\* C11: a request answered 400, 403 or 404 leaves every author and every
\* book, in every field, as it was before the request
C11_FailureLeavesStore ==
    [][(Handled /\ last'.status \in {HTTP_400_BAD_REQUEST, HTTP_403_FORBIDDEN,
                                     HTTP_404_NOT_FOUND}) =>
          /\ authors' = authors
          /\ books' = books]_vars

\* a full update of an existing book refused for its year: the title it
\* carried is not the stored one
C11_Witness ==
    /\ ~Idle
    /\ last.view = "BookUpdateView" /\ last.authed
    /\ last.status = HTTP_400_BAD_REQUEST
    /\ last.pk \in Ids(books)
    /\ last.data.fields = BookFields
    /\ "publication_year" \in ErrorKeys(last)
    /\ books[last.pk].title # last.data.title

\* a body with a title, a year that is not in the future and a stored author
ValidBook(data, atable, year) ==
    /\ data.fields = BookFields
    /\ data.title # <<>>
    /\ data.publication_year <= year
    /\ data.author \in Ids(atable)

SubmittedRow(data) ==
    [title |-> data.title, publication_year |-> data.publication_year,
     author |-> data.author]

\* C12: an authenticated POST /books/create/ with a valid body is answered
\* 201 with exactly id, title, publication_year and author, the last three
\* as submitted and id one that no stored book has; the store then holds
\* that one book more and every earlier book as it was
C12_CreateAddsOne ==
    [][(Handled /\ last'.view = "BookCreateView" /\ last'.method = "POST"
        /\ last'.authed /\ ValidBook(last'.data, authors, currentYear)) =>
          /\ last'.status = HTTP_201_CREATED
          /\ Len(last'.body) = 1
          /\ DOMAIN last'.body[1] = {"id", "title", "publication_year", "author"}
          /\ last'.body[1].title = last'.data.title
          /\ last'.body[1].publication_year = last'.data.publication_year
          /\ last'.body[1].author = last'.data.author
          /\ last'.body[1].id \notin Ids(books)
          /\ Ids(books') = Ids(books) \cup {last'.body[1].id}
          /\ books'[last'.body[1].id] = SubmittedRow(last'.data)
          /\ \A b \in Ids(books) : books'[b] = books[b]
          /\ authors' = authors]_vars

\* a book created after an earlier one was deleted
C12_Witness ==
    /\ ~Idle
    /\ last.view = "BookCreateView" /\ last.status = HTTP_201_CREATED
    /\ \E b \in 1..(nextBookId - 1) : b \notin Ids(books)
    /\ last.body[1].id = nextBookId - 1
    /\ last.body[1].id \in Ids(books)

\* C13: an authenticated PUT /books/<pk>/update/ of an existing book with a
\* valid body is answered 200; the book then has the submitted title, year
\* and author under its old id, and no other book and no author has changed
C13_UpdateReplaces ==
    [][(Handled /\ last'.view = "BookUpdateView" /\ last'.method = "PUT"
        /\ last'.authed /\ last'.pk \in Ids(books)
        /\ ValidBook(last'.data, authors, currentYear)) =>
          /\ last'.status = HTTP_200_OK
          /\ Ids(books') = Ids(books)
          /\ books'[last'.pk] = SubmittedRow(last'.data)
          /\ last'.body = <<BookReprIn(books', last'.pk)>>
          /\ \A b \in Ids(books) \ {last'.pk} : books'[b] = books[b]
          /\ authors' = authors]_vars

\* an update that moved the book to another author, beside another book
C13_Witness ==
    /\ ~Idle
    /\ last.view = "BookUpdateView" /\ last.method = "PUT"
    /\ last.status = HTTP_200_OK
    /\ Cardinality(Ids(books)) >= 2
    /\ books[last.pk].author = MaxAuthorId
    /\ \E b \in Ids(books) : books[b].author = 1 /\ books[b].title = TitleB

\* C14: an authenticated DELETE /books/<pk>/delete/ of an existing book is
\* answered 204 and removes that book and nothing else; an id once issued
\* and gone never comes back, and GET /books/<pk>/ of it is answered 404
C14_DeletePermanent ==
    [][/\ (Handled /\ last'.view = "BookDeleteView" /\ last'.method = "DELETE"
           /\ last'.authed /\ last'.pk \in Ids(books)) =>
              /\ last'.status = HTTP_204_NO_CONTENT
              /\ last'.body = <<>>
              /\ Ids(books') = Ids(books) \ {last'.pk}
              /\ \A b \in Ids(books') : books'[b] = books[b]
              /\ authors' = authors
       /\ nextBookId' >= nextBookId
       /\ \A b \in 1..(nextBookId - 1) : b \notin Ids(books) => b \notin Ids(books')
       /\ (Handled /\ last'.view = "BookDetailView" /\ last'.method = "GET"
           /\ last'.pk \notin Ids(books)) =>
              last'.status = HTTP_404_NOT_FOUND]_vars

\* a deleted book is looked up after another book was created
C14_Witness ==
    /\ ~Idle
    /\ last.view = "BookDetailView" /\ last.method = "GET"
    /\ last.status = HTTP_404_NOT_FOUND
    /\ last.pk < nextBookId
    /\ last.pk < MaxBookId
    /\ MaxBookId \in Ids(books)

(***************************************************************************)
(* Properties of refused writes: what the error body says.                 *)
(***************************************************************************)
AuthedCreate(r) == r.view = "BookCreateView" /\ r.method = "POST" /\ r.authed

\* C15: an authenticated create whose body leaves out one or more of title,
\* publication_year and author is answered 400 with an error map keyed by
\* field, holding for each field left out the error of a missing field, and
\* no book is created
C15_MissingFields ==
    [][(Handled /\ AuthedCreate(last') /\ last'.data.fields # BookFields) =>
          /\ last'.status = HTTP_400_BAD_REQUEST
          /\ ErrorKeys(last') \subseteq BookFields
          /\ \A f \in BookFields \ last'.data.fields :
                f \in ErrorKeys(last') /\ last'.errors[f] = RequiredMsg
          /\ last'.body = <<>>
          /\ books' = books
          /\ nextBookId' = nextBookId]_vars

\* a create that leaves out two fields while authors and books are stored
C15_Witness ==
    /\ ~Idle /\ AuthedCreate(last)
    /\ last.status = HTTP_400_BAD_REQUEST
    /\ last.data.fields = {"author"}
    /\ ErrorKeys(last) = {"title", "publication_year"}
    /\ books # EmptyTable

\* an authenticated create, or update of an existing book, that carries an
\* author value
AuthorWrite(r, btable) ==
    /\ r.authed
    /\ \/ r.view = "BookCreateView" /\ r.method = "POST"
       \/ /\ r.view = "BookUpdateView" /\ r.method \in {"PUT", "PATCH"}
          /\ r.pk \in Ids(btable)
    /\ "author" \in r.data.fields

\* C16: an authenticated create or update of a book whose author value is
\* the id of no stored author is answered 400 with an author key in the
\* error body, and no author and no book changes
C16_UnknownAuthor ==
    [][(Handled /\ AuthorWrite(last', books)
        /\ last'.data.author \notin Ids(authors)) =>
          /\ last'.status = HTTP_400_BAD_REQUEST
          /\ "author" \in ErrorKeys(last')
          /\ books' = books
          /\ authors' = authors]_vars

\* a create naming an author that was deleted, refused for that alone while
\* another author is stored
C16_Witness ==
    /\ ~Idle /\ AuthedCreate(last)
    /\ last.status = HTTP_400_BAD_REQUEST
    /\ ErrorKeys(last) = {"author"}
    /\ last.data.author < nextAuthorId
    /\ last.data.author \notin Ids(authors)
    /\ authors # EmptyTable

\* C17: an authenticated create refused because its year is in the future
\* (the body being valid otherwise) is answered 400 with a publication_year
\* key whose text contains 'Cannot be in the future', capital C included
C17_GuardMessage ==
    [][(Handled /\ AuthedCreate(last')
        /\ last'.data.fields = BookFields
        /\ last'.data.title # <<>>
        /\ last'.data.author \in Ids(authors)
        /\ last'.data.publication_year > currentYear) =>
          /\ last'.status = HTTP_400_BAD_REQUEST
          /\ "publication_year" \in ErrorKeys(last')
          /\ Contains(last'.errors.publication_year,
                      "Cannot be in the future")]_vars

(***************************************************************************)
(* Properties of the author endpoints and of the two layers of defence.    *)
(***************************************************************************)
AuthorWriteRequest(r) ==
    \/ r.view = "AuthorListCreateView" /\ r.method = "POST"
    \/ r.view = "AuthorDetailView" /\ r.method \in {"PUT", "PATCH"}

\* C18: a create or update of an author, whatever list of books its body
\* carries, creates, changes and deletes no book; and the books rendered
\* for an author are exactly the stored books whose author it is
C18_NestedReadOnly ==
    [][/\ (Handled /\ AuthorWriteRequest(last')) =>
              /\ books' = books
              /\ nextBookId' = nextBookId
       /\ (Handled /\ last'.view \in {"AuthorListCreateView", "AuthorDetailView"}) =>
              \A i \in DOMAIN last'.body :
                  last'.body[i].books =
                      {BookReprIn(books', b) :
                          b \in {x \in Ids(books') :
                                    books'[x].author = last'.body[i].id}}]_vars

\* an author updated with a list of books in the body: its one book is
\* rendered, another author's book is not
C18_Witness ==
    /\ ~Idle
    /\ last.view = "AuthorDetailView" /\ last.method = "PUT"
    /\ last.status = HTTP_200_OK
    /\ last.data.books > 0
    /\ Cardinality(last.body[1].books) = 1
    /\ \E b \in Ids(books) : books[b].author # last.pk

\* an authenticated create, or update of an existing book, that supplies a
\* publication_year
YearWrite(r, btable) ==
    /\ r.authed
    /\ \/ r.view = "BookCreateView" /\ r.method = "POST"
       \/ /\ r.view = "BookUpdateView" /\ r.method \in {"PUT", "PATCH"}
          /\ r.pk \in Ids(btable)
    /\ "publication_year" \in r.data.fields

\* what the view's own guard raises for the request
GuardErrors(r, now) ==
    IF r.view = "BookCreateView" THEN perform_create(r.data, now)
    ELSE perform_update(r.data, now)

\* what the serializer raises once validate_publication_year is taken out
OtherErrors(r, atable, today) ==
    LET errs == BookSerializer_errors(r.data, r.method = "PATCH", atable, today)
    IN  {f \in DOMAIN errs : errs[f] # FutureMsg}

\* C19: each layer refuses a future year by itself: the serializer's
\* validate_publication_year raises for every year after the current one on
\* create and update whatever the view's guard does, and the view's guard
\* raises for every such year on create and on every PUT or PATCH that
\* supplies publication_year, whenever the request gets as far as the guard
C19_EachLayerRejects ==
    [][(Handled /\ YearWrite(last', books)) =>
          /\ last'.data.publication_year > currentYear =>
                /\ validate_publication_year(last'.data.publication_year,
                                             currentYear) # ""
                /\ "publication_year" \in
                      DOMAIN BookSerializer_errors(last'.data,
                                 last'.method = "PATCH", authors, currentYear)
          /\ (/\ last'.data.publication_year > currentYear'
              /\ OtherErrors(last', authors, currentYear) = {}) =>
                "publication_year" \in DOMAIN GuardErrors(last', currentYear')]_vars

\* a partial update that supplies nothing but a future year is refused
C19_Witness ==
    /\ ~Idle
    /\ last.view = "BookUpdateView" /\ last.method = "PATCH" /\ last.authed
    /\ last.pk \in Ids(books)
    /\ last.data.fields = {"publication_year"}
    /\ last.data.publication_year > currentYear
    /\ last.status = HTTP_400_BAD_REQUEST
    /\ OtherErrors(last, authors, currentYear) = {}
    /\ "publication_year" \in DOMAIN GuardErrors(last, currentYear)

\* C20: no request of an anonymous caller, to any routed endpoint with any
\* method, creates, changes or deletes an author or a book
C20_AnonymousNeverWrites ==
    [][(Handled /\ ~last'.authed) =>
          /\ authors' = authors
          /\ books' = books
          /\ nextAuthorId' = nextAuthorId
          /\ nextBookId' = nextBookId]_vars

\* an anonymous DELETE of an author that has books is refused
C20_Witness ==
    /\ ~Idle /\ ~last.authed
    /\ last.view = "AuthorDetailView" /\ last.method = "DELETE"
    /\ last.pk \in Ids(authors)
    /\ BooksOf(books, last.pk) # {}
    /\ last.status = HTTP_403_FORBIDDEN

(***************************************************************************)
(* The bookshelf application (advanced_features_and_security): template    *)
(* views behind permission_required.  In this specification books is the   *)
(* Book table of bookshelf/models.py (title, author, published_date,       *)
(* owner) and last is the request to a bookshelf view with its response;   *)
(* the Author table takes no part.                                         *)
(***************************************************************************)
HTTP_302_FOUND == 302
HTTP_500_INTERNAL_SERVER_ERROR == 500

ShelfPerms ==
    {"bookshelf.can_view", "bookshelf.can_create", "bookshelf.can_edit",
     "bookshelf.can_delete"}

\* a caller: request.user with the permissions granted to it
User(authenticated, active, superuser, perms) ==
    [is_authenticated |-> authenticated, is_active |-> active,
     is_superuser |-> superuser, perms |-> perms]

AnonymousUser == User(FALSE, FALSE, FALSE, {})

\* user.has_perm: nothing for an inactive user, everything for a superuser
has_perm(user, perm) ==
    user.is_active /\ (user.is_superuser \/ perm \in user.perms)

\* the permission each view is decorated with
book_list_permission == "bookshelf.can_view"
book_create_permission == "bookshelf.can_create"
book_edit_permission == "bookshelf.can_edit"
\* book_delete decorated with the permission of book_list
book_delete_permission_can_view == "bookshelf.can_view"
book_delete_permission == "bookshelf.can_delete"

\* permission_required(perm, raise_exception=True): PermissionDenied, that
\* is 403, for whoever lacks perm, the anonymous caller included; 0 lets
\* the view run
permission_required(user, perm) ==
    IF has_perm(user, perm) THEN 0 ELSE HTTP_403_FORBIDDEN

\* the posted form; posted is FALSE when request.POST is empty
FormData(posted, t, d) ==
    [posted |-> posted, title |-> IF posted THEN t ELSE <<>>,
     description |-> IF posted THEN d ELSE <<>>]

\* BookForm(request.POST or None).is_valid(): bound, and both fields filled
BookForm_is_valid(data) ==
    data.posted /\ data.title # <<>> /\ data.description # <<>>

\* book_list renders the list
book_list_response(user, method) ==
    LET pre == permission_required(user, book_list_permission)
    IN  IF pre # 0 THEN pre ELSE HTTP_200_OK

\* book_create: a valid POST calls Book.objects.create(description=...), and
\* Book has no such field: TypeError before any row is written
book_create_response(user, method, data) ==
    LET pre == permission_required(user, book_create_permission)
    IN  IF pre # 0 THEN pre
        ELSE IF method = "POST" /\ BookForm_is_valid(data)
             THEN HTTP_500_INTERNAL_SERVER_ERROR
        ELSE HTTP_200_OK

\* book_edit: get_object_or_404, then book.description is read for the
\* form's initial values, and Book has no such attribute: AttributeError
book_edit_response(user, method, pk, data, btable) ==
    LET pre == permission_required(user, book_edit_permission)
    IN  IF pre # 0 THEN pre
        ELSE IF pk \notin Ids(btable) THEN HTTP_404_NOT_FOUND
        ELSE HTTP_500_INTERNAL_SERVER_ERROR

\* book_delete: get_object_or_404, delete, redirect; whatever the method
book_delete_response(user, method, pk, btable) ==
    LET pre == permission_required(user, book_delete_permission)
    IN  IF pre # 0 THEN pre
        ELSE IF pk \notin Ids(btable) THEN HTTP_404_NOT_FOUND
        ELSE HTTP_302_FOUND

ShelfRespond(view, method, user, pk, data, status) ==
    [view |-> view, method |-> method, user |-> user, pk |-> pk,
     data |-> data, status |-> status]

book_list(user, method) ==
    /\ Idle
    /\ last' = ShelfRespond("book_list", method, user, 0, FormData(FALSE, <<>>, <<>>),
                            book_list_response(user, method))
    /\ UNCHANGED <<authors, books, nextAuthorId, nextBookId, currentYear>>

book_create(user, method, data) ==
    /\ Idle
    /\ last' = ShelfRespond("book_create", method, user, 0, data,
                            book_create_response(user, method, data))
    /\ UNCHANGED <<authors, books, nextAuthorId, nextBookId, currentYear>>

book_edit(user, method, pk, data) ==
    /\ Idle
    /\ last' = ShelfRespond("book_edit", method, user, pk, data,
                            book_edit_response(user, method, pk, data, books))
    /\ UNCHANGED <<authors, books, nextAuthorId, nextBookId, currentYear>>

book_delete(user, method, pk) ==
    LET status == book_delete_response(user, method, pk, books)
    IN  /\ Idle
        /\ books' = IF status = HTTP_302_FOUND
                    THEN [b \in Ids(books) \ {pk} |-> books[b]]
                    ELSE books
        /\ last' = ShelfRespond("book_delete", method, user, pk,
                                FormData(FALSE, <<>>, <<>>), status)
        /\ UNCHANGED <<authors, nextAuthorId, nextBookId, currentYear>>

(***************************************************************************)
(* The bookshelf specification: some books on the shelf, then any request  *)
(* of any caller to the four views.                                        *)
(***************************************************************************)
\* anonymous, every grant to an active user, a superuser, inactive users
ShelfCallers ==
    {AnonymousUser, User(TRUE, TRUE, TRUE, {}), User(TRUE, FALSE, TRUE, {}),
     User(TRUE, FALSE, FALSE, ShelfPerms)}
    \cup {User(TRUE, TRUE, FALSE, ps) : ps \in SUBSET ShelfPerms}

ShelfMethods == {"GET", "POST"}

ShelfForms ==
    {FormData(FALSE, <<>>, <<>>), FormData(TRUE, TitleA, NameB),
     FormData(TRUE, <<>>, NameB)}

ShelfRows ==
    [title : Titles, author : {NameA}, published_date : {FirstYear},
     owner : {1}]

\* ids a request may name: those of the shelf and one beyond
ShelfIds == 1..(MaxBookId + 1)

InitShelf ==
    /\ authors = EmptyTable
    /\ \E n \in 0..MaxBookId : books \in [1..n -> ShelfRows]
    /\ nextAuthorId = 1
    /\ nextBookId = Cardinality(Ids(books)) + 1
    /\ currentYear = FirstYear
    /\ last = NoRequest

NextShelf ==
    \/ Idle /\ \E user \in ShelfCallers, method \in ShelfMethods :
         book_list(user, method)
    \/ Idle /\ \E user \in ShelfCallers, method \in ShelfMethods :
         \E data \in (IF method = "POST" THEN ShelfForms
                      ELSE {FormData(FALSE, <<>>, <<>>)}) :
            book_create(user, method, data)
    \/ Idle /\ \E user \in ShelfCallers, method \in ShelfMethods, pk \in ShelfIds :
         \E data \in (IF method = "POST" THEN ShelfForms
                      ELSE {FormData(FALSE, <<>>, <<>>)}) :
            book_edit(user, method, pk, data)
    \/ Idle /\ \E user \in ShelfCallers, method \in ShelfMethods, pk \in ShelfIds :
         book_delete(user, method, pk)
    \/ ReturnResponse

SpecShelf == InitShelf /\ [][NextShelf]_vars

\* the permission the claim pairs with each view
RequiredPerm(view) ==
    CASE view = "book_list" -> "bookshelf.can_view"
      [] view = "book_create" -> "bookshelf.can_create"
      [] view = "book_edit" -> "bookshelf.can_edit"
      [] view = "book_delete" -> "bookshelf.can_delete"

\* the caller was granted the permission, or is a superuser, and is active
Holding(user, perm) ==
    user.is_active /\ (user.is_superuser \/ perm \in user.perms)

\* C21: a request to book_list, book_create, book_edit or book_delete by a
\* caller that does not hold can_view, can_create, can_edit or can_delete
\* respectively is answered 403, for a pk that does not exist as well, and
\* no book is created, changed or deleted; any other answer, and any change
\* of the shelf, is for a caller that holds the permission
C21_PermissionRequired ==
    [][Handled =>
          /\ ~Holding(last'.user, RequiredPerm(last'.view)) =>
                /\ last'.status = HTTP_403_FORBIDDEN
                /\ books' = books
                /\ nextBookId' = nextBookId
          /\ last'.status # HTTP_403_FORBIDDEN =>
                Holding(last'.user, RequiredPerm(last'.view))
          /\ books' # books => Holding(last'.user, RequiredPerm(last'.view))]_vars

\* a caller granted every permission but can_delete asks book_delete for a
\* book that is already gone, while others are on the shelf
C21_Witness ==
    /\ ~Idle
    /\ last.view = "book_delete"
    /\ last.user = User(TRUE, TRUE, FALSE, ShelfPerms \ {"bookshelf.can_delete"})
    /\ last.pk \notin Ids(books)
    /\ last.pk < nextBookId
    /\ books # EmptyTable
    /\ last.status = HTTP_403_FORBIDDEN

====
